---- MODULE Spec2Model ----
(***************************************************************************)
(* A model of the BNBWallet facade (src/BNBWallet.js): construction of the *)
(* signing identity, the asynchronous query and transfer methods with      *)
(* their await points, the unit conversions they apply, and the endpoint   *)
(* and transaction handles they talk to.                                   *)
(*                                                                         *)
(* Strings that the code inspects character by character (amounts,         *)
(* formatted balances) are sequences of one-character strings.  Integers   *)
(* of the chain (BigInt) are records [neg, ds]: a sign and the canonical   *)
(* decimal digits, so that values of the order of 10^18 are exact.         *)
(***************************************************************************)
EXTENDS Integers, Sequences, FiniteSets, TLC

VARIABLES
    ctor,      \* "none" | "ok" | "failed": the constructor's outcome
    ctorArg,   \* the privateKey argument the constructor was given
    provider,  \* this.provider: the endpoint URL bound at construction
    wallet,    \* this.wallet: [address, privateKey, mnemonic]
    console,   \* the lines written by console.log
    calls,     \* the calls of async methods made so far, by call id
    netCount,  \* number of requests that have been sent to the endpoint
    txs,       \* the transactions the endpoint accepted, in arrival order
    chain,     \* chain[h]: "pending" | "success" | "reverted" of txs[h]
    handles,   \* handles[h]: the TransactionResponse returned for txs[h]
    unit       \* the conversion under test (SpecUnits only)

vars == <<ctor, ctorArg, provider, wallet, console, calls, netCount, txs,
          chain, handles, unit>>

NULL == "null"

-----------------------------------------------------------------------------
(* Bounds of the model *)

MaxCalls == 2       \* calls of async methods in one run
MaxShort == 2       \* digits in the head and in the tail of a balance
MaxZeroRun == 18    \* zeros between the head and the tail of a balance
MaxUnitDec == 3     \* largest decimals() of a token in SpecUnits

-----------------------------------------------------------------------------
(* Decimal strings and BigInt values *)

NativeDecimals == 18

DigitChars == {"0", "1", "2", "3", "4", "5", "6", "7", "8", "9"}

Zeros(n) == [i \in 1..n |-> "0"]

MinOf(S) == CHOOSE x \in S : \A y \in S : x <= y
MaxOf(S) == CHOOSE x \in S : \A y \in S : x >= y

\* BigInt(digits): the canonical digits of a digit string
Canon(s) ==
    LET nz == {i \in 1..Len(s) : s[i] # "0"}
    IN  IF nz = {} THEN <<"0">> ELSE SubSeq(s, MinOf(nz), Len(s))

BigInt(neg, s) ==
    LET ds == Canon(s)
    IN  [neg |-> neg /\ ds # <<"0">>, ds |-> ds]

BigZero == [neg |-> FALSE, ds |-> <<"0">>]

\* FixedNumber.fromString's regular expression /^(-?)([0-9]*)\.?([0-9]*)$/
MatchDecimal(s) ==
    LET neg   == Len(s) > 0 /\ s[1] = "-"
        body  == IF neg THEN Tail(s) ELSE s
        dots  == {i \in 1..Len(body) : body[i] = "."}
        p     == IF dots = {} THEN Len(body) + 1 ELSE MinOf(dots)
        whole == SubSeq(body, 1, p - 1)
        frac  == SubSeq(body, p + 1, Len(body))
        ok    == /\ Cardinality(dots) <= 1
                 /\ \A i \in 1..Len(whole) : whole[i] \in DigitChars
                 /\ \A i \in 1..Len(frac) : frac[i] \in DigitChars
    IN  [ok |-> ok, neg |-> neg, whole |-> whole, frac |-> frac]

\* ethers.parseUnits(value, decimals):
\* FixedNumber.fromString(value, {decimals, width: 512}).value
parseUnits(value, decimals) ==
    LET m == MatchDecimal(value)
    IN  IF ~m.ok \/ Len(m.whole) + Len(m.frac) = 0
        THEN [ok |-> FALSE, code |-> "INVALID_ARGUMENT", v |-> BigZero]
        ELSE LET whole   == IF m.whole = <<>> THEN <<"0">> ELSE m.whole
                 padded  == IF Len(m.frac) < decimals
                            THEN m.frac \o Zeros(decimals - Len(m.frac))
                            ELSE m.frac
                 extra   == SubSeq(padded, decimals + 1, Len(padded))
                 decimal == SubSeq(padded, 1, decimals)
             IN  IF \E i \in 1..Len(extra) : extra[i] # "0"
                 THEN [ok |-> FALSE, code |-> "NUMERIC_FAULT", v |-> BigZero]
                 ELSE [ok |-> TRUE, code |-> "",
                       v |-> BigInt(m.neg, whole \o decimal)]

\* ethers.formatUnits(value, decimals):
\* FixedNumber.fromValue(value, decimals, {decimals, width: 512}).toString()
formatUnits(value, decimals) ==
    LET sign == IF value.neg THEN <<"-">> ELSE <<>>
        str  == value.ds
    IN  IF decimals = 0 THEN sign \o str
        ELSE LET padded == IF Len(str) <= decimals
                            THEN Zeros(decimals + 1 - Len(str)) \o str
                            ELSE str
                 index  == Len(padded) - decimals
                 whole0 == SubSeq(padded, 1, index)
                 frac0  == SubSeq(padded, index + 1, Len(padded))
                 wnz    == {i \in 1..Len(whole0) : whole0[i] # "0"}
                 whole  == IF wnz = {} THEN <<"0">>
                           ELSE SubSeq(whole0, MinOf(wnz), Len(whole0))
                 fnz    == {i \in 1..Len(frac0) : frac0[i] # "0"}
                 frac   == IF fnz = {} THEN <<"0">>
                           ELSE SubSeq(frac0, 1, MaxOf(fnz))
             IN  sign \o whole \o <<".">> \o frac

\* ethers.parseEther / ethers.formatEther: the native exponent, 18
parseEther(value) == parseUnits(value, NativeDecimals)

formatEtherGwei(value) == formatUnits(value, 9)
formatEther(value) == formatUnits(value, NativeDecimals)

-----------------------------------------------------------------------------
(* The world outside the facade: keys, addresses, the endpoint's chain *)

Url == "https://rpc"

\* privateKey arguments: null, the empty string, a well-formed key and a
\* malformed one
KeyInputs == {NULL, "", "k1", "zz"}
ValidKeys == {"k1"}
\* the key Wallet.createRandom() draws, with its mnemonic phrase
RandomKeys == {"r1"}

AddressOf(key) ==
    CASE key = "k1" -> "0xA1"
      [] key = "r1" -> "0xC1"
      [] OTHER -> NULL

MnemonicOf(key) ==
    CASE key = "r1" -> "phrase one"
      [] OTHER -> NULL

\* recipients: a well-formed address and a malformed one (bad checksum)
GoodTo == "0xB0b"
BadTo == "0xBAD"

\* token addresses: two ERC20 contracts and an address with no contract
Tokens == {"T18", "T2", "EOA"}
\* those a caller asks the balance of
BalanceTokens == {"T2"}
HasContract(token) == token # "EOA"
TokenDecimals(token) == IF token = "T18" THEN NativeDecimals ELSE 2

\* what balanceOf answers for the wallet: 1050 smallest units
TokenBalance == [neg |-> FALSE, ds |-> <<"1", "0", "5", "0">>]

\* what eth_getBalance answers for the wallet: 1.5 * 10^18
ChainBalances ==
    {[neg |-> FALSE, ds |-> <<"1", "5">> \o Zeros(NativeDecimals - 1)]}

\* arguments a caller passes to sendTransaction(to, amountInEther): a zero,
\* a negative and a non-numeric amount; a malformed recipient
SendTransactionInputs ==
    {<<GoodTo, <<"0">>>>, <<GoodTo, <<"-", "1">>>>,
     <<GoodTo, <<"a", "b", "c">>>>, <<BadTo, <<"1", ".", "5">>>>}

\* arguments a caller passes to sendToken(tokenAddress, to, amount)
SendTokenInputs ==
    {<<"T18", GoodTo, <<"1", "0">>>>, <<"T2", GoodTo, <<"1", ".", "5">>>>,
     <<"T2", GoodTo, <<"-", "1">>>>, <<"T2", GoodTo, <<"a", "b", "c">>>>,
     <<"EOA", GoodTo, <<"1", "0">>>>}

-----------------------------------------------------------------------------
(* Construction: src/BNBWallet.js, constructor *)

\* if (privateKey): JavaScript truthiness of null and of a string
TruthyNotNull(privateKey) == privateKey # NULL
Truthy(privateKey) == privateKey # NULL /\ privateKey # ""

\* this.wallet.mnemonic?.phrase || "Not available"
MnemonicLine(w) ==
    IF w.mnemonic # NULL /\ w.mnemonic # "" THEN w.mnemonic
    ELSE "Not available"

ConsoleLines(w) ==
    << <<"Address:", w.address>>,
       <<"Private Key:", w.privateKey>>,
       <<"Mnemonic:", MnemonicLine(w)>> >>

\* new ethers.Wallet(privateKey, provider): no mnemonic
ImportedWallet(privateKey) ==
    [address |-> AddressOf(privateKey), privateKey |-> privateKey,
     mnemonic |-> NULL]

\* ethers.Wallet.createRandom().connect(provider): key and mnemonic
RandomWallet(key) ==
    [address |-> AddressOf(key), privateKey |-> key,
     mnemonic |-> MnemonicOf(key)]

NoWallet == [address |-> NULL, privateKey |-> NULL, mnemonic |-> NULL]

\* requests the constructor sends to the endpoint: none
CtorRequestsProbe == Len(<<"eth_chainId">>)
CtorRequests == 0

Construct(privateKey) ==
    /\ ctor = "none"
    /\ ctorArg' = privateKey
    /\ provider' = Url
    /\ netCount' = netCount + CtorRequests
    /\ IF Truthy(privateKey)
       THEN IF privateKey \in ValidKeys
            THEN /\ wallet' = ImportedWallet(privateKey)
                 /\ console' = ConsoleLines(wallet')
                 /\ ctor' = "ok"
            ELSE \* new ethers.Wallet throws: no facade
                 /\ wallet' = wallet
                 /\ console' = console
                 /\ ctor' = "failed"
       ELSE \E key \in RandomKeys :
                 /\ wallet' = RandomWallet(key)
                 /\ console' = << <<"New wallet created:", "">> >> \o ConsoleLines(wallet')
                 /\ ctor' = "ok"
    /\ UNCHANGED <<calls, txs, chain, handles, unit>>

-----------------------------------------------------------------------------
(* Calls of the async methods.  A call is a record: the method and its     *)
(* arguments, the await it is suspended at (pc), its locals, the requests  *)
(* it has sent (reqs), and how it settled (out, res).                      *)

NoRes == [t |-> "none", s |-> <<>>, h |-> 0, code |-> "", at |-> ""]
StrRes(s) == [NoRes EXCEPT !.t = "str", !.s = s]
NullRes == [NoRes EXCEPT !.t = "null"]
ReceiptRes(h, status) == [NoRes EXCEPT !.t = "receipt", !.h = h, !.code = status]
HandleRes(h) == [NoRes EXCEPT !.t = "handle", !.h = h]
ErrRes(code, at) == [NoRes EXCEPT !.t = "err", !.code = code, !.at = at]

NewCall(op, pc) ==
    [op |-> op, pc |-> pc, to |-> NULL, amt |-> <<>>, token |-> NULL,
     hash |-> 0, val |-> BigZero, dec |-> 0, bal |-> BigZero,
     reqs |-> <<>>, out |-> "run", res |-> NoRes]

\* the promise resolves / rejects
Return(c, res) == [c EXCEPT !.pc = "done", !.out = "ok", !.res = res]
Throw(c, code, at) ==
    [c EXCEPT !.pc = "done", !.out = "err", !.res = ErrRes(code, at)]

\* a request of the call reaches the endpoint
Sent(c, kind, ok) == [c EXCEPT !.reqs = Append(@, [kind |-> kind, ok |-> ok])]

\* No method wraps an await in try/catch or in a loop: a rejected await
\* rejects the method's promise.
OnFailureRetry(c, kind) == IF Len(c.reqs) < 2 THEN "retry" ELSE "throw"
OnFailure(c, kind) == "throw"

\* the call after a request of it failed with `code`
Failed(c, kind, code) ==
    IF OnFailure(c, kind) = "throw"
    THEN Throw(Sent(c, kind, FALSE), code, kind)
    ELSE Sent(c, kind, FALSE)

\* No method takes a lock or queues behind another call.
CanProceedInOrder(i) == \A j \in 1..(i - 1) : calls[j].pc = "done"
CanProceed(i) == TRUE

\* where a transfer method goes once the submission is acknowledged:
\* `return transaction` / `return tx`, without tx.wait()
AfterAckWait(op) == "wait"
AfterAck(op) == "done"

Suspended(i, pc) ==
    /\ i \in 1..Len(calls)
    /\ calls[i].pc = pc
    /\ CanProceed(i)

\* a method of a constructed facade is called: it runs to its first await
Begin(c) ==
    /\ Len(calls) < MaxCalls
    /\ calls' = Append(calls, c)
    /\ UNCHANGED <<ctor, ctorArg, provider, wallet, console, netCount, txs,
                   chain, handles, unit>>

\* a response arrives for call i: the call becomes c, n requests were sent
Resume(i, c, n) ==
    /\ calls' = [calls EXCEPT ![i] = c]
    /\ netCount' = netCount + n
    /\ UNCHANGED <<ctor, ctorArg, provider, wallet, console, unit>>

NetworkCodes == {"NETWORK_ERROR"}

-----------------------------------------------------------------------------
(* getBalance *)

CallGetBalance ==
    /\ ctor = "ok"
    /\ Begin(NewCall("getBalance", "getBalance"))

\* await this.provider.getBalance(address); return ethers.formatEther(balance)
RespGetBalance(i) ==
    /\ Suspended(i, "getBalance")
    /\ \/ \E b \in ChainBalances :
            Resume(i, Return([Sent(calls[i], "getBalance", TRUE)
                                EXCEPT !.bal = b], StrRes(formatEther(b))), 1)
       \/ Resume(i, Failed(calls[i], "getBalance", "NETWORK_ERROR"), 1)
    /\ UNCHANGED <<txs, chain, handles>>

-----------------------------------------------------------------------------
(* getTransactionReceipt *)

\* the hash a caller asks about: that of the first transaction the endpoint
\* accepts, unknown to the endpoint until then (for ever, if it accepts none)
Hashes == {1}

CallGetTransactionReceipt(hash) ==
    /\ ctor = "ok"
    /\ Begin([NewCall("getTransactionReceipt", "getReceipt") EXCEPT !.hash = hash])

\* what the endpoint answers to eth_getTransactionReceipt
EndpointReceipt(hash) ==
    IF hash \in 1..Len(txs) /\ chain[hash] # "pending"
    THEN ReceiptRes(hash, chain[hash])
    ELSE NullRes

\* return await this.provider.getTransactionReceipt(txHash): the answer,
\* null included, is returned as it is
ReceiptOrThrow(c, answer) ==
    IF answer.t = "null" THEN Throw(c, "NOT_FOUND", "getReceipt")
    ELSE Return(c, answer)
ReceiptResult(c, answer) == Return(c, answer)

RespGetTransactionReceipt(i) ==
    /\ Suspended(i, "getReceipt")
    /\ \/ Resume(i, ReceiptResult(Sent(calls[i], "getReceipt", TRUE),
                                  EndpointReceipt(calls[i].hash)), 1)
       \/ Resume(i, Failed(calls[i], "getReceipt", "NETWORK_ERROR"), 1)
    /\ UNCHANGED <<txs, chain, handles>>

-----------------------------------------------------------------------------
(* getTokenBalance *)

CallGetTokenBalance(token) ==
    /\ ctor = "ok"
    /\ Begin([NewCall("getTokenBalance", "balanceOf") EXCEPT !.token = token])

\* const balance = await contract.balanceOf(this.wallet.address)
RespBalanceOf(i) ==
    /\ Suspended(i, "balanceOf")
    /\ LET c == calls[i]
       IN  \/ /\ HasContract(c.token)
              /\ Resume(i, [Sent(c, "balanceOf", TRUE)
                              EXCEPT !.bal = TokenBalance, !.pc = "decimals"], 1)
           \/ /\ ~HasContract(c.token)
              /\ Resume(i, Failed(c, "balanceOf", "BAD_DATA"), 1)
           \/ Resume(i, Failed(c, "balanceOf", "NETWORK_ERROR"), 1)
    /\ UNCHANGED <<txs, chain, handles>>

-----------------------------------------------------------------------------
(* decimals(): the second await of getTokenBalance, the first of sendToken *)

\* ethers.parseUnits(amount, decimals) in sendToken
TokenAmountEther(amount, decimals) == parseEther(amount)
TokenAmount(amount, decimals) == parseUnits(amount, decimals)

\* sendToken after decimals() answered d: parseUnits, then contract.transfer
\* encodes (to, amount) as (address, uint256) before anything is sent
AfterDecimals(c, d) ==
    LET p == TokenAmount(c.amt, d)
    IN  IF ~p.ok THEN Throw(c, p.code, "parseUnits")
        ELSE IF c.to = BadTo THEN Throw(c, "INVALID_ARGUMENT", "address")
        ELSE IF p.v.neg THEN Throw(c, "INVALID_ARGUMENT", "uint256")
        ELSE [c EXCEPT !.val = p.v, !.pc = "send"]

\* decimals() rejected: the rejection leaves the method at once
DecimalsFallback(c, code) ==
    IF c.op = "sendToken"
    THEN AfterDecimals([Sent(c, "decimals", FALSE) EXCEPT !.dec = NativeDecimals],
                       NativeDecimals)
    ELSE Failed(c, "decimals", code)
DecimalsFailed(c, code) == Failed(c, "decimals", code)

RespDecimals(i) ==
    /\ Suspended(i, "decimals")
    /\ LET c == calls[i]
           d == TokenDecimals(c.token)
           got == [Sent(c, "decimals", TRUE) EXCEPT !.dec = d]
       IN  \/ /\ HasContract(c.token)
              /\ c.op = "getTokenBalance"
              /\ Resume(i, Return(got, StrRes(formatUnits(c.bal, d))), 1)
           \/ /\ HasContract(c.token)
              /\ c.op = "sendToken"
              /\ Resume(i, AfterDecimals(got, d), 1)
           \/ /\ ~HasContract(c.token)
              /\ Resume(i, DecimalsFailed(c, "BAD_DATA"), 1)
           \/ Resume(i, DecimalsFailed(c, "NETWORK_ERROR"), 1)
    /\ UNCHANGED <<txs, chain, handles>>

-----------------------------------------------------------------------------
(* sendTransaction and sendToken *)

\* const tx = {to, value: ethers.parseEther(amountInEther)};
\* this.wallet.sendTransaction(tx) then resolves `to` before its first request
CallSendTransaction(to, amount) ==
    LET c == [NewCall("sendTransaction", "send")
                EXCEPT !.to = to, !.amt = amount]
        p == parseEther(amount)
    IN  /\ ctor = "ok"
        /\ Begin(IF ~p.ok THEN Throw(c, p.code, "parseEther")
                 ELSE IF to = BadTo
                      THEN Throw([c EXCEPT !.val = p.v], "INVALID_ARGUMENT", "address")
                      ELSE [c EXCEPT !.val = p.v])

\* const contract = new ethers.Contract(tokenAddress, ERC20_ABI, this.wallet);
\* const decimals = await contract.decimals()
CallSendToken(token, to, amount) ==
    /\ ctor = "ok"
    /\ Begin([NewCall("sendToken", "decimals")
                EXCEPT !.token = token, !.to = to, !.amt = amount])

\* the transaction a call signs and submits
TxOf(i) ==
    LET c == calls[i]
    IN  [by |-> i, from |-> wallet.address,
         kind |-> IF c.op = "sendTransaction" THEN "native" ELSE "token",
         token |-> c.token, to |-> c.to, value |-> c.val]

Handle(st, by) == [st |-> st, by |-> by]

\* await this.wallet.sendTransaction(tx) / await contract.transfer(to, amount):
\* one await of the facade, in which the signer asks for the sender's nonce,
\* estimates the gas (a negative value cannot be written into that request:
\* numeric fault), signs, and submits the raw transaction.  A request may
\* fail at either end of it: the first, for the nonce, or the submission
RespSend(i) ==
    /\ Suspended(i, "send")
    /\ LET c  == calls[i]
           c1 == Sent(c, "getNonce", TRUE)
           c2 == Sent(c1, "estimateGas", TRUE)
           c3 == Sent(c2, "broadcast", TRUE)
           h  == Len(txs) + 1
       IN  \/ /\ Resume(i, Failed(c, "getNonce", "NETWORK_ERROR"), 1)
              /\ UNCHANGED <<txs, chain, handles>>
           \/ /\ c.val.neg
              /\ Resume(i, Throw(c1, "NUMERIC_FAULT", "estimateGas"), 1)
              /\ UNCHANGED <<txs, chain, handles>>
           \/ \* rejected by the endpoint: nothing is submitted
              /\ ~c.val.neg
              /\ Resume(i, Failed(c2, "broadcast", "SERVER_ERROR"), 3)
              /\ UNCHANGED <<txs, chain, handles>>
           \/ \* accepted, but the acknowledgment never arrives
              /\ ~c.val.neg
              /\ txs' = Append(txs, TxOf(i))
              /\ chain' = Append(chain, "pending")
              /\ handles' = Append(handles, Handle("none", "none"))
              /\ Resume(i, Failed(c2, "broadcast", "NETWORK_ERROR"), 3)
           \/ \* accepted and acknowledged: the method returns the response
              /\ ~c.val.neg
              /\ txs' = Append(txs, TxOf(i))
              /\ chain' = Append(chain, "pending")
              /\ IF AfterAck(c.op) = "done"
                 THEN /\ handles' = Append(handles, Handle("pending", "none"))
                      /\ Resume(i, Return(c3, HandleRes(h)), 3)
                 ELSE /\ handles' = Append(handles, Handle("waiting", "facade"))
                      /\ Resume(i, [c3 EXCEPT !.pc = "wait", !.res = HandleRes(h)], 3)

-----------------------------------------------------------------------------
(* The chain and the caller's use of a TransactionResponse *)

\* the network mines a submitted transaction
Mine(h) ==
    /\ h \in 1..Len(txs)
    /\ chain[h] = "pending"
    /\ \E st \in {"success", "reverted"} : chain' = [chain EXCEPT ![h] = st]
    /\ UNCHANGED <<ctor, ctorArg, provider, wallet, console, calls, netCount,
                   txs, handles, unit>>

\* tx.wait() on a returned response, awaited by whoever holds it (the
\* caller, once the method has returned it), resolves when the transaction
\* is mined: the response is then known confirmed, or failed if it reverted
Wait(h) ==
    /\ h \in 1..Len(handles)
    /\ handles[h].st \in {"pending", "waiting"}
    /\ chain[h] # "pending"
    /\ handles' = [handles EXCEPT ![h] =
                      Handle(IF chain[h] = "success" THEN "confirmed" ELSE "failed",
                             IF @.st = "pending" THEN "caller" ELSE @.by)]
    /\ calls' = [i \in 1..Len(calls) |->
                    IF calls[i].pc = "wait" /\ calls[i].res.h = h
                    THEN IF chain[h] = "success"
                         THEN Return(calls[i], calls[i].res)
                         ELSE Throw(calls[i], "CALL_EXCEPTION", "wait")
                    ELSE calls[i]]
    /\ UNCHANGED <<ctor, ctorArg, provider, wallet, console, netCount, txs,
                   chain, unit>>

-----------------------------------------------------------------------------
(* The facade's state machine *)

UnitIdle == [phase |-> "idle", op |-> "none", bal |-> BigZero, dec |-> 0,
             str |-> <<>>]

Init ==
    /\ ctor = "none"
    /\ ctorArg = NULL
    /\ provider = NULL
    /\ wallet = NoWallet
    /\ console = <<>>
    /\ calls = <<>>
    /\ netCount = 0
    /\ txs = <<>>
    /\ chain = <<>>
    /\ handles = <<>>
    /\ unit = UnitIdle

\* the next await of call i resolves or rejects
Step(i) ==
    \/ RespGetBalance(i)
    \/ RespGetTransactionReceipt(i)
    \/ RespBalanceOf(i)
    \/ RespDecimals(i)
    \/ RespSend(i)

Next ==
    \/ \E k \in KeyInputs : Construct(k)
    \/ CallGetBalance
    \/ \E h \in Hashes : CallGetTransactionReceipt(h)
    \/ \E t \in BalanceTokens : CallGetTokenBalance(t)
    \/ \E in \in SendTransactionInputs : CallSendTransaction(in[1], in[2])
    \/ \E in \in SendTokenInputs : CallSendToken(in[1], in[2], in[3])
    \/ \E i \in 1..MaxCalls : Step(i)
    \/ \E h \in 1..MaxCalls : Mine(h) \/ Wait(h)

Spec == Init /\ [][Next]_vars

-----------------------------------------------------------------------------
(* The unit conversions on their own: a balance the endpoint answers and a *)
(* token's decimals are drawn, and getBalance / getTokenBalance format it  *)

UnitDigits == {"0", "1", "9"}

RECURSIVE DigitStrings(_)
DigitStrings(n) ==
    IF n = 0 THEN {<<>>}
    ELSE {<<>>} \cup {Append(s, d) : s \in DigitStrings(n - 1), d \in UnitDigits}

\* balances: a short head, a run of zeros, a short tail
UnitBalances ==
    {BigInt(FALSE, h \o Zeros(k) \o t) :
        h \in DigitStrings(MaxShort), k \in 0..MaxZeroRun, t \in DigitStrings(MaxShort)}

UnitInit ==
    /\ ctor = "ok"
    /\ ctorArg = "k1"
    /\ provider = Url
    /\ wallet = ImportedWallet("k1")
    /\ console = ConsoleLines(wallet)
    /\ calls = <<>>
    /\ netCount = 0
    /\ txs = <<>>
    /\ chain = <<>>
    /\ handles = <<>>
    /\ \E b \in UnitBalances, d \in 0..MaxUnitDec :
          unit = [phase |-> "answered", op |-> "none", bal |-> b, dec |-> d,
                  str |-> <<>>]

\* getBalance: return ethers.formatEther(balance)
UnitGetBalance ==
    /\ unit.phase = "answered"
    /\ unit' = [unit EXCEPT !.phase = "returned", !.op = "getBalance",
                            !.str = formatEther(unit.bal)]
    /\ UNCHANGED <<ctor, ctorArg, provider, wallet, console, calls, netCount,
                   txs, chain, handles>>

\* getTokenBalance: return ethers.formatUnits(balance, decimals)
UnitGetTokenBalance ==
    /\ unit.phase = "answered"
    /\ unit' = [unit EXCEPT !.phase = "returned", !.op = "getTokenBalance",
                            !.str = formatUnits(unit.bal, unit.dec)]
    /\ UNCHANGED <<ctor, ctorArg, provider, wallet, console, calls, netCount,
                   txs, chain, handles>>

UnitNext == UnitGetBalance \/ UnitGetTokenBalance

SpecUnits == UnitInit /\ [][UnitNext]_vars

-----------------------------------------------------------------------------
(* Vocabulary of the properties *)

Ids == 1..Len(calls)
Transfers == {"sendTransaction", "sendToken"}
Done(i) == calls[i].pc = "done"
TxsBy(i) == {h \in 1..Len(txs) : txs[h].by = i}
KindsSent(c) == {c.reqs[k].kind : k \in 1..Len(c.reqs)}
LastReq(c) == c.reqs[Len(c.reqs)]

\* a decimal string read as a number, independently of the library's parser:
\* the digits before and after the point
PointAt(s) ==
    IF \E i \in 1..Len(s) : s[i] = "."
    THEN CHOOSE i \in 1..Len(s) : s[i] = "." /\ \A j \in 1..(i - 1) : s[j] # "."
    ELSE Len(s) + 1
WholeOf(s) == SubSeq(s, 1, PointAt(s) - 1)
FracOf(s) == SubSeq(s, PointAt(s) + 1, Len(s))
\* digits, then possibly a point followed by digits: at least one digit on
\* each side of a point, and nothing but digits besides it
IsDecimalString(s) ==
    LET p == PointAt(s)
    IN  /\ p > 1
        /\ p # Len(s)
        /\ \A i \in 1..Len(s) : i # p => s[i] \in DigitChars

\* the integer s * 10^d of a decimal string s with at most d fractional digits
TimesPow10(s, d) ==
    LET p == PointAt(s)
        f == SubSeq(s, p + 1, Len(s))
    IN  BigInt(FALSE, SubSeq(s, 1, p - 1) \o f \o Zeros(d - Len(f)))

DigitSeq == <<"0", "1", "2", "3", "4", "5", "6", "7", "8", "9">>
DigitVal(ch) == (CHOOSE k \in 1..10 : DigitSeq[k] = ch) - 1

RECURSIVE NumOf(_)
NumOf(ds) ==
    IF ds = <<>> THEN 0
    ELSE 10 * NumOf(SubSeq(ds, 1, Len(ds) - 1)) + DigitVal(ds[Len(ds)])

RECURSIVE Pow10(_)
Pow10(n) == IF n = 0 THEN 1 ELSE 10 * Pow10(n - 1)

\* small enough for machine arithmetic: s * 10^d = v, as numbers
NumericallyEqual(s, d, v) ==
    LET f == FracOf(s)
    IN  NumOf(WholeOf(s) \o f) * Pow10(d) = NumOf(v.ds) * Pow10(Len(f))

\* the awaits of the methods, and a call being able to leave the one it is at
AwaitPoints == {"getBalance", "getReceipt", "balanceOf", "decimals", "send"}
Ready(i) == \E pc \in AwaitPoints : Suspended(i, pc)

RECURSIVE SumReqs(_)
SumReqs(cs) ==
    IF cs = <<>> THEN 0 ELSE Len(Head(cs).reqs) + SumReqs(Tail(cs))

-----------------------------------------------------------------------------
(* C1: sendTransaction(addr, "0") is accepted and submits a transfer of    *)
(* value 0, and sendTransaction(addr, "-1") fails with the invalid-amount  *)
(* error of the amount conversion before any request reaches the endpoint. *)
C1_ZeroAcceptedNegativeRejectedEarly ==
    \A i \in Ids :
        LET c == calls[i]
        IN  c.op = "sendTransaction" /\ c.to = GoodTo =>
              /\ c.amt = <<"0">> =>
                    /\ ~(c.out = "err" /\ c.res.at = "parseEther")
                    /\ c.out = "ok" =>
                          /\ c.res.t = "handle"
                          /\ txs[c.res.h].value = BigZero
                          /\ txs[c.res.h].to = c.to
              /\ c.amt = <<"-", "1">> =>
                    /\ c.reqs = <<>>
                    /\ TxsBy(i) = {}
                    /\ Done(i) => c.out = "err" /\ c.res.at = "parseEther"

-----------------------------------------------------------------------------
-----------------------------------------------------------------------------
(* C3: getTransactionReceipt of a hash that is unknown or not yet mined    *)
(* returns null normally; it fails only when the request itself failed.    *)
C3_ReceiptNotFoundIsNull ==
    \A i \in Ids :
        LET c == calls[i]
        IN  c.op = "getTransactionReceipt" /\ Done(i) =>
              /\ Len(c.reqs) = 1
              /\ c.out = "err" <=> ~c.reqs[1].ok
              /\ c.out = "err" => c.res.code \in NetworkCodes
              /\ c.out = "ok" => c.res.t \in {"null", "receipt"}
              /\ (c.out = "ok" /\ (c.hash \notin 1..Len(txs) \/ chain[c.hash] = "pending"))
                    => c.res = NullRes
              /\ c.res.t = "receipt" => c.res.h = c.hash /\ c.res.code = chain[c.hash]

\* the receipt of a submitted, unmined transaction was asked for: null
C3_Witness ==
    \E i \in Ids :
        /\ calls[i].op = "getTransactionReceipt" /\ calls[i].hash = 1
        /\ calls[i].out = "ok" /\ calls[i].res = NullRes
        /\ Len(txs) >= 1 /\ chain[1] = "pending"

-----------------------------------------------------------------------------
(* C4: a facade constructed with null or "" has a present, non-empty       *)
(* mnemonic, one constructed with a private key has none and reports "Not  *)
(* available"; this holds in every later state.                            *)
C4_MnemonicByProvenance ==
    ctor # "none" =>
        /\ ctorArg \in {NULL, ""} =>
              /\ ctor = "ok"
              /\ wallet.mnemonic \notin {NULL, ""}
              /\ console[Len(console)] = <<"Mnemonic:", wallet.mnemonic>>
        /\ (ctorArg \notin {NULL, ""} /\ ctor = "ok") =>
              /\ wallet.mnemonic = NULL
              /\ wallet.privateKey = ctorArg
              /\ console[Len(console)] = <<"Mnemonic:", "Not available">>

C4_Witness ==
    /\ ctorArg = "" /\ ctor = "ok" /\ wallet.mnemonic = MnemonicOf("r1")
    /\ \E i \in Ids : calls[i].op = "sendTransaction" /\ calls[i].out = "ok"

-----------------------------------------------------------------------------
(* C5: the string getBalance (exponent 18) and getTokenBalance (exponent   *)
(* decimals()) return is a decimal string which, times 10^exponent, is     *)
(* exactly the integer the query answered.                                 *)
C5_RoundTrip ==
    unit.phase = "returned" =>
        LET d == IF unit.op = "getBalance" THEN NativeDecimals ELSE unit.dec
            s == unit.str
        IN  /\ IsDecimalString(s)
            /\ Len(FracOf(s)) <= d
            /\ TimesPow10(s, d) = unit.bal
            /\ (Len(unit.bal.ds) <= 5 /\ d <= 3) => NumericallyEqual(s, d, unit.bal)

C5_Witness ==
    /\ unit.phase = "returned" /\ unit.op = "getBalance"
    /\ unit.bal = [neg |-> FALSE, ds |-> <<"1", "9">> \o Zeros(NativeDecimals - 1)]
    /\ unit.str = <<"1", ".", "9">>

-----------------------------------------------------------------------------
(* C6: the transfer a sendToken call submits goes to the token contract it *)
(* was given, with the recipient it was given and the amount times         *)
(* 10^decimals, where decimals is what that call's own decimals() request, *)
(* its first request, answered; "10" with 18 decimals is 10 * 10^18.       *)
C6_TokenAmountScaled ==
    \A h \in 1..Len(txs) :
        LET c == calls[txs[h].by]
            d == TokenDecimals(c.token)
        IN  txs[h].kind = "token" =>
              /\ c.op = "sendToken"
              /\ txs[h].token = c.token
              /\ txs[h].to = c.to
              /\ txs[h].from = wallet.address
              /\ c.reqs[1] = [kind |-> "decimals", ok |-> TRUE]
              /\ c.dec = d
              /\ IsDecimalString(c.amt)
              /\ Len(c.amt) - PointAt(c.amt) <= d
              /\ txs[h].value = TimesPow10(c.amt, d)
              /\ d <= 3 => NumericallyEqual(c.amt, d, txs[h].value)
              /\ (c.amt = <<"1", "0">> /\ d = 18) =>
                    txs[h].value = [neg |-> FALSE, ds |-> <<"1", "0">> \o Zeros(18)]

\* both tokens have been sent: "10" of the 18-decimal one, "1.5" of the other
C6_Witness ==
    \E g, h \in 1..Len(txs) :
        /\ txs[g].kind = "token" /\ txs[g].token = "T18"
        /\ calls[txs[g].by].amt = <<"1", "0">>
        /\ txs[h].kind = "token" /\ txs[h].token = "T2"
        /\ txs[h].value = [neg |-> FALSE, ds |-> <<"1", "5", "0">>]

-----------------------------------------------------------------------------
(* C7, as claimed: a call that failed has had no observable effect: no     *)
(* transaction of it reached the network.                                  *)
C7_FailedCallSubmittedNothing ==
    \A i \in Ids : calls[i].out = "err" => TxsBy(i) = {}

(* C7, amended: a call that failed has submitted no transaction, unless    *)
(* the failure is the loss of the acknowledgment of its submission; in     *)
(* particular a call that failed at decimals(), at the amount conversion,  *)
(* at the recipient, or at any request before the submission has submitted *)
(* nothing, and a call that succeeded has submitted exactly one.           *)
C7_NoPartialFailureButLostAck ==
    \A i \in Ids :
        LET c == calls[i]
            sent == TxsBy(i)
        IN  /\ (c.out = "err" /\ sent # {}) =>
                  /\ c.res.at = "broadcast"
                  /\ c.res.code \in NetworkCodes
                  /\ handles[CHOOSE h \in sent : TRUE].st = "none"
            /\ (c.out = "err" /\ c.res.at # "broadcast") => sent = {}
            /\ (\E k \in 1..Len(c.reqs) :
                    ~c.reqs[k].ok /\ c.reqs[k].kind # "broadcast") => sent = {}
            /\ sent # {} =>
                  /\ c.op \in Transfers
                  /\ IsDecimalString(c.amt)
                  /\ c.to # BadTo
            /\ (c.op \in Transfers /\ c.out = "ok") => Cardinality(sent) = 1

\* a sendToken call failed at decimals(), another at its amount string,
\* and neither submitted anything
C7_Witness ==
    \E i, j \in Ids :
        /\ calls[i].op = "sendToken" /\ calls[i].out = "err"
        /\ calls[i].res.at = "decimals"
        /\ calls[j].op = "sendToken" /\ calls[j].out = "err"
        /\ calls[j].res.at = "parseUnits"
        /\ txs = <<>>

-----------------------------------------------------------------------------
(* C8: a call sends each of its requests at most once and submits at most  *)
(* one transaction; a request of it that failed is its last request, and   *)
(* the call has then ended with that failure as its error.                 *)
C8_NoRetryNoRecovery ==
    /\ netCount = SumReqs(calls)
    /\ \A i \in Ids :
        LET c == calls[i]
        IN  /\ Cardinality(KindsSent(c)) = Len(c.reqs)
            /\ Cardinality(TxsBy(i)) <= 1
            /\ \A k \in 1..Len(c.reqs) :
                  ~c.reqs[k].ok =>
                      /\ k = Len(c.reqs)
                      /\ Done(i)
                      /\ c.out = "err"
                      /\ c.res.at = c.reqs[k].kind

\* a sendToken call whose submission was rejected after three good requests
C8_Witness ==
    \E i \in Ids :
        /\ calls[i].op = "sendToken" /\ calls[i].out = "err"
        /\ calls[i].res = ErrRes("SERVER_ERROR", "broadcast")
        /\ Len(calls[i].reqs) = 4
        /\ netCount = 4

-----------------------------------------------------------------------------
(* C9: under every interleaving the facade's provider and wallet are what  *)
(* construction made of the constructor's argument, and every call that is *)
(* suspended can take its next step (the guard of Step holds for it)       *)
(* whatever the other calls are doing.                                     *)
(* That two transfers can be submitted in the reverse of the order they    *)
(* were called in is C9_Witness.                                           *)
C9_SharedStateReadOnlyNoBlocking ==
    /\ ctor = "ok" =>
          /\ provider = Url
          /\ wallet = IF Truthy(ctorArg) THEN ImportedWallet(ctorArg)
                      ELSE RandomWallet(CHOOSE k \in RandomKeys : TRUE)
    /\ \A i \in Ids : ~Done(i) => Ready(i)

C9_Witness ==
    /\ Len(txs) = 2
    /\ txs[1].by = 2 /\ txs[2].by = 1
    /\ txs[1].from = txs[2].from

-----------------------------------------------------------------------------
(* C10: constructing the facade sends nothing to the endpoint: until a     *)
(* method is called no request has been sent, and every request sent is a  *)
(* request of some call.                                                   *)
C10_ConstructionSendsNothing ==
    /\ calls = <<>> => netCount = 0
    /\ netCount = SumReqs(calls)

\* after construction the first request is that of a getBalance call
C10_Witness ==
    /\ ctor = "ok"
    /\ netCount = 1
    /\ Len(calls) = 1 /\ calls[1].reqs = <<[kind |-> "getBalance", ok |-> TRUE]>>

====
